---- MODULE Spec2Model ----
(***************************************************************************)
(* The view layer of the blog (blog/views.py): post_detail, post_list,     *)
(* post_search and post_share_by_email, each modelled as one action that   *)
(* reads the request, queries or writes the store and leaves the rendered  *)
(* context (or the Http404) in `response`.                                 *)
(*                                                                         *)
(* The store is the Post table (status, slug, publish, tags, title and     *)
(* body), the Comment table and the record of send_mail calls.  The views  *)
(* never write the Post table, so the initial condition draws it from      *)
(* bounded sets and the actions leave it unchanged.                        *)
(***************************************************************************)
EXTENDS Integers, Sequences, FiniteSets

VARIABLES posts, comments, outbox, request, response

vars == <<posts, comments, outbox, request, response>>

----------------------------------------------------------------------------
(* Bounds of the model.                                                    *)

NumPosts == 3
MaxComments == 1
MaxMails == 2

PostIds == 1..NumPosts

----------------------------------------------------------------------------
(* The data the store and the requests are drawn from.                     *)

Statuses == {"DRAFT", "PUBLISHED"}

Tags == {"django", "python"}

\* publish is a datetime <<year, month, day, hour>>.
PublishTimes == {<<2020, 1, 1, 9>>, <<2020, 1, 1, 17>>, <<2020, 1, 2, 9>>}

Slugs == {"first-post", "second-post"}

\* Trigram similarities of a title and of a body to the query, in thousandths
\* (the threshold 0.003 is 3).
TitleScores == {2, 3, 4}

BodyScores == {2, 4}

SlugOf(i) == IF i % 2 = 1 THEN "first-post" ELSE "second-post"

TitleOf(i) == <<"title", i>>

\* a datetime is later than another: the order of order_by('-publish')
PublishAfter(a, b) ==
    \/ a[1] > b[1]
    \/ a[1] = b[1] /\ a[2] > b[2]
    \/ a[1] = b[1] /\ a[2] = b[2] /\ a[3] > b[3]
    \/ a[1] = b[1] /\ a[2] = b[2] /\ a[3] = b[3] /\ a[4] > b[4]

MkPost(i, st, pb, tg, ts, bs) ==
    [id |-> i, status |-> st, slug |-> SlugOf(i), title |-> TitleOf(i),
     publish |-> pb, tags |-> tg, title_sim |-> ts, body_sim |-> bs]

\* slug is unique for the publish date
UniqueForDate(ps) ==
    \A i, j \in DOMAIN ps :
        (i # j /\ ps[i].slug = ps[j].slug)
            => <<ps[i].publish[1], ps[i].publish[2], ps[i].publish[3]>>
                 # <<ps[j].publish[1], ps[j].publish[2], ps[j].publish[3]>>

\* a comment the moderators have hidden, already in the table
InitComments ==
    << [post |-> 1, name |-> "bob", body |-> "spam", active |-> FALSE] >>

NoRequest == [view |-> "none"]
NoResponse == [kind |-> "none"]
NotFound == [kind |-> "Http404"]

----------------------------------------------------------------------------
(* QuerySet helpers.                                                       *)

\* Post.published: the manager that keeps the PUBLISHED posts
Published == {i \in PostIds : posts[i].status = "PUBLISHED"}

\* the sequences that list every element of S once
Orderings(S) ==
    {f \in [1..Cardinality(S) -> S] : \A i, j \in DOMAIN f : i # j => f[i] # f[j]}

\* a slice [:n] of a sequence
Take(s, n) == SubSeq(s, 1, IF n < Len(s) THEN n ELSE Len(s))

Range(s) == {s[i] : i \in DOMAIN s}

----------------------------------------------------------------------------
(* post_detail                                                             *)

\* a lookup that leaves publish__day out
DetailMatchesAnyDay(slug, year, month, day) ==
    {i \in PostIds : /\ posts[i].slug = slug
                     /\ posts[i].status = "PUBLISHED"
                     /\ posts[i].publish[1] = year
                     /\ posts[i].publish[2] = month}

\* get_object_or_404(Post, slug, status='PUBLISHED', publish__year/month/day)
DetailMatches(slug, year, month, day) ==
    {i \in PostIds : /\ posts[i].slug = slug
                     /\ posts[i].status = "PUBLISHED"
                     /\ posts[i].publish[1] = year
                     /\ posts[i].publish[2] = month
                     /\ posts[i].publish[3] = day}

\* CommentForm.is_valid(): name and body are required
CommentFormValid(data) == data.name # "" /\ data.body # ""

\* a comment that keeps the post reference of the form data
NewCommentFromClient(data, p) ==
    [post |-> IF data.post # 0 THEN data.post ELSE p,
     name |-> data.name, body |-> data.body, active |-> TRUE]

\* comment_form.save(commit=False); new_comment.post = post
NewComment(data, p) ==
    [post |-> p, name |-> data.name, body |-> data.body, active |-> TRUE]

\* a POST branch that saves without is_valid()
CommentsAfterUnvalidated(cs, method, data, p) ==
    IF method = "POST"
    THEN Append(cs, [post |-> p, name |-> data.name, body |-> data.body,
                     active |-> TRUE])
    ELSE cs

\* the Comment table after the POST branch of post_detail
CommentsAfter(cs, method, data, p) ==
    IF method = "POST" /\ CommentFormValid(data)
    THEN Append(cs, NewComment(data, p))
    ELSE cs

\* new_comment of the context, as a list of zero or one comment
NewCommentOf(method, data, p) ==
    IF method = "POST" /\ CommentFormValid(data)
    THEN <<NewComment(data, p)>>
    ELSE <<>>

\* comment_form of the context
CommentFormOf(method, data) ==
    IF method = "POST"
    THEN IF CommentFormValid(data)
         THEN [kind |-> "bound", data |-> data, errors |-> {}]
         ELSE [kind |-> "blank"]
    ELSE [kind |-> "None"]

\* post.comments.filter(active=True), evaluated when the page renders
ActiveComments(cs, p) ==
    SelectSeq(cs, LAMBDA c : c.post = p /\ c.active)

\* annotate(same_tags=Count('tags')) over the rows filter(tags__in=...) joined
SameTags(p, q) == Cardinality(posts[q].tags \cap posts[p].tags)

\* Post.published.filter(tags__in=post_tags_ids).exclude(id=post.id)
SimilarCandidates(p) ==
    {q \in Published : q # p /\ posts[q].tags \cap posts[p].tags # {}}

\* order_by('-same_tags', 'publish'): the oldest first among equals
SimilarBeforeOldestFirst(p, q, r) ==
    \/ Cardinality(posts[q].tags \cap posts[p].tags)
         > Cardinality(posts[r].tags \cap posts[p].tags)
    \/ Cardinality(posts[q].tags \cap posts[p].tags)
         = Cardinality(posts[r].tags \cap posts[p].tags)
         /\ PublishAfter(posts[r].publish, posts[q].publish)

\* order_by('-same_tags', '-publish'): q is placed before r
SimilarBefore(p, q, r) ==
    \/ SameTags(p, q) > SameTags(p, r)
    \/ SameTags(p, q) = SameTags(p, r)
         /\ PublishAfter(posts[q].publish, posts[r].publish)

\* the orders the database may return the candidates in (ties are arbitrary)
SimilarOrders(p) ==
    {s \in Orderings(SimilarCandidates(p)) :
        \A i, j \in DOMAIN s : i < j => ~SimilarBefore(p, s[j], s[i])}

post_detail(req) ==
    LET found == DetailMatches(req.slug, req.year, req.month, req.day) IN
    /\ request' = req
    /\ IF found = {}
       THEN /\ response' = NotFound
            /\ UNCHANGED comments
       ELSE IF Cardinality(found) > 1
       THEN /\ response' = [kind |-> "MultipleObjectsReturned"]
            /\ UNCHANGED comments
       ELSE LET p == CHOOSE i \in found : TRUE IN
            /\ (req.method = "POST" /\ CommentFormValid(req.data))
                  => Len(comments) < Len(InitComments) + MaxComments
            /\ comments' = CommentsAfter(comments, req.method, req.data, p)
            /\ \E order \in SimilarOrders(p) :
                 response' =
                   [kind |-> "detail",
                    post |-> p,
                    comments |-> ActiveComments(comments', p),
                    new_comment |-> NewCommentOf(req.method, req.data, p),
                    comment_form |-> CommentFormOf(req.method, req.data),
                    similar_posts |-> Take(order, req.similar_posts_number)]
    /\ UNCHANGED <<posts, outbox>>

\* the requests the URL configuration hands to post_detail
DetailDates == {<<2020, 1, 1>>, <<2020, 1, 2>>, <<2020, 2, 1>>, <<2021, 1, 1>>}

NoData == [name |-> "", body |-> "", post |-> 0]

\* post is the post reference the client adds to the form data (0: none)
CommentData ==
    [name : {"ann"}, body : {"", "nice"}, post : {0, 2}]

SimilarPostsNumbers == {1, 4}

DetailRequest(method, slug, date, data, n) ==
    [view |-> "post_detail", method |-> method, slug |-> slug,
     year |-> date[1], month |-> date[2], day |-> date[3],
     data |-> data, similar_posts_number |-> n]

\* GET requests for the dates posts are published on, with every limit
SimilarGets ==
    {DetailRequest("GET", s, <<t[1], t[2], t[3]>>, NoData, n) :
        s \in Slugs, t \in PublishTimes, n \in SimilarPostsNumbers}

\* the paths: every slug on every date, and a slug no post has
DetailPaths ==
    (Slugs \X DetailDates) \cup {<<"no-such-post", <<2020, 1, 1>>>>}

DetailGets ==
    {DetailRequest("GET", path[1], path[2], NoData, 4) : path \in DetailPaths}

DetailPosts ==
    {DetailRequest("POST", path[1], path[2], f, 4) :
        path \in DetailPaths, f \in CommentData}

----------------------------------------------------------------------------
(* post_list                                                               *)

\* the store's default ordering of a set of posts: by primary key
RECURSIVE DefaultOrder(_)
DefaultOrder(S) ==
    IF S = {} THEN <<>>
    ELSE LET m == CHOOSE i \in S : \A j \in S : i <= j
         IN <<m>> \o DefaultOrder(S \ {m})

\* Post.published.all(), narrowed by filter(tags__in=[tag]) when tag_slug is set
ListedPosts(tag_slug) ==
    IF tag_slug = "" THEN Published
    ELSE {i \in Published : tag_slug \in posts[i].tags}

Digits == {"0", "1", "2", "3"}

DigitValue(c) ==
    CASE c = "0" -> 0 [] c = "1" -> 1 [] c = "2" -> 2 [] c = "3" -> 3

Unsigned(s) == IF s # <<>> /\ s[1] = "-" THEN Tail(s) ELSE s

\* int(number) succeeds: an optional sign and at least one digit
IsInteger(s) ==
    Unsigned(s) # <<>> /\ \A i \in DOMAIN Unsigned(s) : Unsigned(s)[i] \in Digits

RECURSIVE DigitsValue(_)
DigitsValue(s) ==
    IF s = <<>> THEN 0
    ELSE 10 * DigitsValue(SubSeq(s, 1, Len(s) - 1)) + DigitValue(s[Len(s)])

\* int(number)
ParseInt(s) ==
    IF s[1] = "-" THEN 0 - DigitsValue(Tail(s)) ELSE DigitsValue(s)

\* Paginator.num_pages with orphans=0 and allow_empty_first_page=True
NumPages(count, per_page) ==
    LET hits == IF count > 1 THEN count ELSE 1
    IN (hits + per_page - 1) \div per_page

\* Paginator.validate_number: page is the raw GET parameter, a list of zero or
\* one strings (request.GET.get('page') is None when the parameter is absent)
ValidateNumber(page, num_pages) ==
    IF page = <<>> \/ ~IsInteger(page[1])
    THEN [raised |-> "PageNotAnInteger", number |-> 0]
    ELSE LET number == ParseInt(page[1]) IN
         IF number < 1
         THEN [raised |-> "EmptyPage", number |-> number]
         ELSE IF number > num_pages /\ number # 1
         THEN [raised |-> "EmptyPage", number |-> number]
         ELSE [raised |-> "", number |-> number]

\* a try/except that answers EmptyPage with the first page
PageNumberFirstOnEmpty(page, num_pages) ==
    IF ValidateNumber(page, num_pages).raised # ""
    THEN 1
    ELSE ValidateNumber(page, num_pages).number

\* the page number the try/except of post_list ends with
PageNumber(page, num_pages) ==
    LET v == ValidateNumber(page, num_pages) IN
    IF v.raised = "PageNotAnInteger" THEN 1
    ELSE IF v.raised = "EmptyPage" THEN num_pages
    ELSE v.number

\* Paginator.page(number): the slice object_list[bottom:top]
PageOf(object_list, number, per_page) ==
    LET count == Len(object_list)
        bottom == (number - 1) * per_page
        top == IF bottom + per_page >= count THEN count ELSE bottom + per_page
    IN [number |-> number,
        object_list |-> SubSeq(object_list, bottom + 1, top),
        num_pages |-> NumPages(count, per_page)]

post_list(req) ==
    /\ request' = req
    /\ IF req.tag_slug # "" /\ req.tag_slug \notin Tags
       THEN response' = NotFound
       ELSE LET published_posts == DefaultOrder(ListedPosts(req.tag_slug))
                num_pages == NumPages(Len(published_posts), req.posts_on_page)
                number == PageNumber(req.page, num_pages)
            IN response' =
                 [kind |-> "list",
                  page |-> req.page,
                  posts |-> PageOf(published_posts, number, req.posts_on_page),
                  tag |-> req.tag_slug]
    /\ UNCHANGED <<posts, comments, outbox>>

\* the page parameter: absent, or one of these strings
PageStrings ==
    {<<"x">>, <<"2", "x">>, <<"0">>, <<"-", "1">>, <<"1">>, <<"2">>,
     <<"0", "2">>, <<"1", "0">>}

PageParams == {<<>>} \cup {<<s>> : s \in PageStrings}

PostsOnPage == {1, 3}

ListRequests ==
    [view : {"post_list"}, tag_slug : {"", "django"},
     page : PageParams, posts_on_page : PostsOnPage]
    \cup
    [view : {"post_list"}, tag_slug : {"no-such-tag"},
     page : {<<>>, <<<<"2">>>>}, posts_on_page : PostsOnPage]

----------------------------------------------------------------------------
(* post_search                                                             *)

\* threshold = 0.003, in thousandths
Threshold == 3

\* SearchForm.is_valid(): the form is bound and query is not empty
SearchFormValid(query) == query # <<>> /\ query[1] # ""

\* Greatest(TrigramSimilarity('title', query), TrigramSimilarity('body', query))
Similarity(i) ==
    IF posts[i].title_sim >= posts[i].body_sim
    THEN posts[i].title_sim ELSE posts[i].body_sim

\* filter(similarity__gt=threshold)
PassesThresholdStrict(score) == score > Threshold

\* filter(similarity__gte=threshold)
PassesThreshold(score) == score >= Threshold

\* Post.objects ... .filter(similarity__gte=threshold)
SearchMatches == {i \in PostIds : PassesThreshold(Similarity(i))}

\* order_by('-similarity'): i is placed before j
SearchBefore(i, j) == Similarity(i) > Similarity(j)

\* the orders the database may return the matches in (ties are arbitrary)
SearchOrders ==
    {s \in Orderings(SearchMatches) :
        \A i, j \in DOMAIN s : i < j => ~SearchBefore(s[j], s[i])}

post_search(req) ==
    /\ request' = req
    /\ IF SearchFormValid(req.query)
       THEN \E results \in SearchOrders :
              response' = [kind |-> "search", bound |-> TRUE,
                           query |-> req.query, results |-> results]
       ELSE response' = [kind |-> "search", bound |-> req.query # <<>>,
                         query |-> <<>>, results |-> <<>>]
    /\ UNCHANGED <<posts, comments, outbox>>

\* request.GET: without 'query', or with one of these values
SearchRequests ==
    [view : {"post_search"}, query : {<<>>, <<"">>, <<"django">>}]

----------------------------------------------------------------------------
(* post_share_by_email                                                     *)

FromEmail == "django.framework.email.test@gmail.com"

WellFormedEmails == {"ann@example.com", "bob@example.com"}

\* EmailPostForm.is_valid(): name, email and destination are required, the two
\* addresses are well formed, comments is optional
EmailPostFormValid(data) ==
    /\ data.name # ""
    /\ data.email \in WellFormedEmails
    /\ data.destination \in WellFormedEmails

\* the send_mail call of a valid POST, with its outcome: delivered is TRUE
\* when send_mail returns and FALSE when it raises
Mail(p, data, delivered) ==
    [delivered |-> delivered,
     subject |-> <<data.name, data.email, posts[p].title>>,
     message |-> <<posts[p].title, posts[p].slug, posts[p].publish,
                   data.name, data.comments>>,
     from_email |-> FromEmail,
     recipient_list |-> <<data.destination>>]

\* a dispatch that is tried again when send_mail raises
MailsOfWithRetry(method, p, data, delivered) ==
    IF method = "POST" /\ EmailPostFormValid(data)
    THEN IF delivered
         THEN <<Mail(p, data, TRUE)>>
         ELSE <<Mail(p, data, FALSE), Mail(p, data, FALSE)>>
    ELSE <<>>

\* the send_mail calls one request makes
MailsOf(method, p, data, delivered) ==
    IF method = "POST" /\ EmailPostFormValid(data)
    THEN <<Mail(p, data, delivered)>>
    ELSE <<>>

\* sent set before send_mail is called
SentFlagsSetEarly(dispatched, delivered) ==
    [sent |-> dispatched, sent_failed |-> dispatched /\ ~delivered]

\* sent and sent_failed after the try/except around send_mail
SentFlags(dispatched, delivered) ==
    [sent |-> dispatched /\ delivered, sent_failed |-> dispatched /\ ~delivered]

\* form of the context
ShareFormOf(method, data) ==
    IF method = "POST"
    THEN [kind |-> "bound", data |-> data, valid |-> EmailPostFormValid(data)]
    ELSE [kind |-> "blank"]

post_share_by_email(req, delivered) ==
    /\ request' = req
    /\ IF req.post_id \notin PostIds \/ posts[req.post_id].status # "PUBLISHED"
       THEN /\ response' = NotFound
            /\ UNCHANGED outbox
       ELSE LET mails == MailsOf(req.method, req.post_id, req.data, delivered)
                flags == SentFlags(mails # <<>>, delivered)
            IN /\ Len(outbox) + Len(mails) <= MaxMails
               /\ outbox' = outbox \o mails
               /\ response' =
                    [kind |-> "share", post |-> req.post_id,
                     form |-> ShareFormOf(req.method, req.data),
                     sent |-> flags.sent, sent_failed |-> flags.sent_failed]
    /\ UNCHANGED <<posts, comments>>

NoShareData == [name |-> "", email |-> "", destination |-> "", comments |-> ""]

ShareData ==
    [name : {"ann"}, email : {"ann@example.com"},
     destination : {"bob@example.com", "not-an-address"},
     comments : {"read it"}]

ShareRequests ==
    [view : {"post_share_by_email"}, method : {"GET"},
     post_id : 1..(NumPosts + 1), data : {NoShareData}]
    \cup
    [view : {"post_share_by_email"}, method : {"POST"},
     post_id : 1..(NumPosts + 1), data : ShareData]

----------------------------------------------------------------------------
(* Specifications.                                                         *)

InitRest ==
    /\ comments = InitComments
    /\ outbox = <<>>
    /\ request = NoRequest
    /\ response = NoResponse

\* the similar-posts query: every status, tag set and publish time
InitSimilar ==
    /\ \E st \in [PostIds -> Statuses], tg \in [PostIds -> SUBSET Tags],
          pb \in [PostIds -> PublishTimes] :
         posts = [i \in PostIds |-> MkPost(i, st[i], pb[i], tg[i], 0, 0)]
    /\ UniqueForDate(posts)
    /\ InitRest

NextSimilar == \E req \in SimilarGets : post_detail(req)

SpecSimilar == InitSimilar /\ [][NextSimilar]_vars

\* post lookup and comment intake: every status and publish time
InitDetail ==
    /\ \E st \in [PostIds -> Statuses], pb \in [PostIds -> PublishTimes] :
         posts = [i \in PostIds |-> MkPost(i, st[i], pb[i], Tags, 0, 0)]
    /\ UniqueForDate(posts)
    /\ InitRest

NextDetail == \E req \in DetailGets \cup DetailPosts : post_detail(req)

SpecDetail == InitDetail /\ [][NextDetail]_vars

\* a publish time for each post that keeps slugs unique for the date
PublishOf(i) == IF i <= 2 THEN <<2020, 1, 1, 9>> ELSE <<2020, 1, 2, 9>>

\* the post list: every status and tag set
InitList ==
    /\ \E st \in [PostIds -> Statuses], tg \in [PostIds -> SUBSET Tags] :
         posts = [i \in PostIds |-> MkPost(i, st[i], PublishOf(i), tg[i], 0, 0)]
    /\ UniqueForDate(posts)
    /\ InitRest

NextList == \E req \in ListRequests : post_list(req)

SpecList == InitList /\ [][NextList]_vars

\* the search: every status and every similarity of title and body
InitSearch ==
    /\ \E st \in [PostIds -> Statuses], ts \in [PostIds -> TitleScores],
          bs \in [PostIds -> BodyScores] :
         posts = [i \in PostIds |-> MkPost(i, st[i], PublishOf(i), {}, ts[i], bs[i])]
    /\ UniqueForDate(posts)
    /\ InitRest

NextSearch == \E req \in SearchRequests : post_search(req)

SpecSearch == InitSearch /\ [][NextSearch]_vars

\* sharing by email: every status
InitShare ==
    /\ \E st \in [PostIds -> Statuses] :
         posts = [i \in PostIds |-> MkPost(i, st[i], PublishOf(i), {}, 0, 0)]
    /\ UniqueForDate(posts)
    /\ InitRest

NextShare ==
    \E req \in ShareRequests, delivered \in BOOLEAN :
        post_share_by_email(req, delivered)

SpecShare == InitShare /\ [][NextShare]_vars

----------------------------------------------------------------------------
(* Properties.  Each is stated over the store, the request and the response *)
(* in its own terms, not through the operators the views are built from.    *)

DateOf(i) == <<posts[i].publish[1], posts[i].publish[2], posts[i].publish[3]>>

SharedTagCount(p, q) == Cardinality({t \in Tags : t \in posts[p].tags /\ t \in posts[q].tags})

\* the posts a similar-posts list of p may hold
Eligible(p) ==
    {q \in PostIds : q # p /\ posts[q].status = "PUBLISHED" /\ SharedTagCount(p, q) >= 1}

\* q ranks strictly above r for p: more shared tags, then the later publish
RanksAbove(p, q, r) ==
    \/ SharedTagCount(p, q) > SharedTagCount(p, r)
    \/ SharedTagCount(p, q) = SharedTagCount(p, r)
         /\ posts[q].publish # posts[r].publish
         /\ \E k \in 1..4 :
              /\ \A m \in 1..(k - 1) : posts[q].publish[m] = posts[r].publish[m]
              /\ posts[q].publish[k] > posts[r].publish[k]

\* C1: the similar-posts list of post_detail holds only published posts other
\* than the post itself that share a tag with it, each once, ranked by the
\* number of shared tags and then by publish time, both descending; it has at
\* most similar_posts_number entries and is the top of that ranking; it is
\* empty when the post has no tags.
SimilarPostsRanked ==
    response.kind = "detail" =>
        LET p == response.post
            sim == response.similar_posts
            n == request.similar_posts_number
        IN /\ \A k \in DOMAIN sim : sim[k] \in Eligible(p)
           /\ \A j, k \in DOMAIN sim : j # k => sim[j] # sim[k]
           /\ \A j, k \in DOMAIN sim : j < k => ~RanksAbove(p, sim[k], sim[j])
           /\ Len(sim) <= n
           /\ Len(sim) = n \/ Len(sim) = Cardinality(Eligible(p))
           /\ \A q \in Eligible(p) \ Range(sim) :
                \A k \in DOMAIN sim : ~RanksAbove(p, q, sim[k])
           /\ posts[p].tags = {} => sim = <<>>

\* two posts with the same overlap, the later one first, and a third post cut
\* off by the limit or by sharing no tag
SimilarPostsRankedWitness ==
    /\ response.kind = "detail"
    /\ request.similar_posts_number = 4
    /\ Len(response.similar_posts) = 2
    /\ SharedTagCount(response.post, response.similar_posts[1])
         = SharedTagCount(response.post, response.similar_posts[2])
    /\ posts[response.similar_posts[1]].publish
         # posts[response.similar_posts[2]].publish

\* the posts a response shows
ShownPosts ==
    CASE response.kind = "detail" ->
           {response.post} \cup Range(response.similar_posts)
      [] response.kind = "list" -> Range(response.posts.object_list)
      [] response.kind = "search" -> Range(response.results)
      [] response.kind = "share" -> {response.post}
      [] OTHER -> {}

\* C2: no response of any view shows a post whose status is not PUBLISHED.
DraftsNeverRetrievable ==
    \A i \in ShownPosts : posts[i].status = "PUBLISHED"

\* the score of a post: the greater of its two similarities
MaxScore(i) ==
    CHOOSE m \in {posts[i].title_sim, posts[i].body_sim} :
        m >= posts[i].title_sim /\ m >= posts[i].body_sim

ValidSearch ==
    /\ request.view = "post_search"
    /\ request.query # <<>>
    /\ request.query # <<"">>

\* C3: for a valid query post_search returns exactly the posts whose score is
\* at least the threshold 0.003 (3 thousandths), each once, by descending score.
SearchThresholdAndOrder ==
    ValidSearch =>
        /\ response.kind = "search"
        /\ Range(response.results) = {i \in PostIds : MaxScore(i) >= 3}
        /\ Len(response.results) = Cardinality(Range(response.results))
        /\ \A j, k \in DOMAIN response.results :
             j < k => MaxScore(response.results[j]) >= MaxScore(response.results[k])

\* a post exactly at the threshold is returned, after a post above it, and a
\* post below the threshold is left out
SearchThresholdAndOrderWitness ==
    /\ ValidSearch
    /\ Len(response.results) = 2
    /\ MaxScore(response.results[1]) = 4
    /\ MaxScore(response.results[2]) = 3
    /\ \E i \in PostIds : MaxScore(i) = 2

\* every post scores below the threshold and the result is empty
SearchNothingFound ==
    /\ ValidSearch
    /\ \A i \in PostIds : MaxScore(i) < 3
    /\ response.results = <<>>

\* the request names a published post by slug and publish date
PathMatches(req, i) ==
    /\ posts[i].status = "PUBLISHED"
    /\ posts[i].slug = req.slug
    /\ DateOf(i) = <<req.year, req.month, req.day>>

ValidCommentPost(req) ==
    /\ req.view = "post_detail"
    /\ req.method = "POST"
    /\ req.data.name # ""
    /\ req.data.body # ""

InvalidCommentPost(req) ==
    /\ req.view = "post_detail"
    /\ req.method = "POST"
    /\ req.data.name = "" \/ req.data.body = ""

CommentCount(cs, i) == Cardinality({k \in DOMAIN cs : cs[k].post = i})

\* C4: a POST with a valid comment form that resolves a post persists exactly
\* one new comment, bound to the post the path names whatever post reference
\* the client sent: that post's comment count grows by 1, every other post's
\* count and every stored comment stay as they were.
ValidCommentBoundToPathPost ==
    [][(ValidCommentPost(request') /\ response'.kind = "detail") =>
          /\ PathMatches(request', response'.post)
          /\ Len(comments') = Len(comments) + 1
          /\ SubSeq(comments', 1, Len(comments)) = comments
          /\ comments'[Len(comments')].post = response'.post
          /\ CommentCount(comments', response'.post)
               = CommentCount(comments, response'.post) + 1
          /\ \A i \in PostIds \ {response'.post} :
               CommentCount(comments', i) = CommentCount(comments, i)
          /\ response'.new_comment = <<comments'[Len(comments')]>>]_vars

\* a valid comment whose form data names another post is stored on the post
\* of the path
ValidCommentBoundToPathPostWitness ==
    /\ ValidCommentPost(request)
    /\ response.kind = "detail"
    /\ request.data.post # 0
    /\ request.data.post # response.post
    /\ Len(comments) = Len(InitComments) + 1
    /\ comments[Len(comments)].post = response.post
    /\ comments[Len(comments) - 1].post # response.post

\* C5: a POST whose comment form fails validation writes nothing: the comment
\* table is unchanged and new_comment of the response is empty.
InvalidCommentWritesNothing ==
    [][InvalidCommentPost(request') =>
          /\ comments' = comments
          /\ response'.kind = "detail" => response'.new_comment = <<>>]_vars

\* an invalid comment for a post that resolves, after a comment was stored
InvalidCommentWritesNothingWitness ==
    /\ InvalidCommentPost(request)
    /\ response.kind = "detail"
    /\ response.new_comment = <<>>
    /\ Len(comments) > Len(InitComments)

\* C6: after a POST whose comment form fails validation the form of the page
\* is the submitted form, with the submitted values and the field errors.
InvalidCommentFormRedisplayed ==
    (InvalidCommentPost(request) /\ response.kind = "detail") =>
        /\ response.comment_form.kind = "bound"
        /\ response.comment_form.data = request.data
        /\ response.comment_form.errors # {}

\* the integer a page string stands for
PageValue(str) ==
    CASE str = <<"0">> -> 0
      [] str = <<"-", "1">> -> 0 - 1
      [] str = <<"1">> -> 1
      [] str = <<"2">> -> 2
      [] str = <<"0", "2">> -> 2
      [] str = <<"1", "0">> -> 10

IntegerPage(page) ==
    /\ page # <<>>
    /\ page[1] \in {<<"0">>, <<"-", "1">>, <<"1">>, <<"2">>, <<"0", "2">>, <<"1", "0">>}

\* the posts post_list pages through
ListCount(req) ==
    Cardinality({i \in PostIds :
        /\ posts[i].status = "PUBLISHED"
        /\ req.tag_slug # "" => req.tag_slug \in posts[i].tags})

\* the number of pages: the least n >= 1 with n * posts_on_page >= count
LastPage(req) ==
    CHOOSE n \in 1..(NumPosts + 1) :
        /\ n * req.posts_on_page >= ListCount(req)
        /\ n = 1 \/ (n - 1) * req.posts_on_page < ListCount(req)

\* C7: post_list never fails because of the page parameter: an absent or
\* non-integer page gives page 1, an integer page beyond the last page gives
\* the last page, an in-range page gives that page; the page holds at most
\* posts_on_page posts and its number is between 1 and the number of pages.
PageAlwaysClamped ==
    (request.view = "post_list" /\ request.tag_slug \in {"", "django", "python"}) =>
        /\ response.kind = "list"
        /\ response.posts.number \in 1..LastPage(request)
        /\ response.posts.num_pages = LastPage(request)
        /\ Len(response.posts.object_list) <= request.posts_on_page
        /\ Len(response.posts.object_list) <= ListCount(request)
        /\ ~IntegerPage(request.page) => response.posts.number = 1
        /\ IntegerPage(request.page) =>
             LET v == PageValue(request.page[1]) IN
             /\ v > LastPage(request) => response.posts.number = LastPage(request)
             /\ v \in 1..LastPage(request) => response.posts.number = v

\* page 10 of three pages gives page 3
PageAlwaysClampedWitness ==
    /\ request.view = "post_list"
    /\ request.page = << <<"1", "0">> >>
    /\ response.kind = "list"
    /\ response.posts.number = 3
    /\ Len(response.posts.object_list) = 1

\* no published post at all: page 1, empty
PageOfEmptyList ==
    /\ request.view = "post_list"
    /\ request.page = << <<"2">> >>
    /\ response.kind = "list"
    /\ ListCount(request) = 0
    /\ response.posts.number = 1
    /\ response.posts.object_list = <<>>

ValidSharePost(req) ==
    /\ req.view = "post_share_by_email"
    /\ req.method = "POST"
    /\ req.data.name # ""
    /\ req.data.email \in {"ann@example.com", "bob@example.com"}
    /\ req.data.destination \in {"ann@example.com", "bob@example.com"}

SharesPublished(req) ==
    /\ req.view = "post_share_by_email"
    /\ req.post_id \in PostIds
    /\ posts[req.post_id].status = "PUBLISHED"

\* C8: for a valid POST a dispatch that succeeds gives sent and not
\* sent_failed, one that fails gives sent_failed and not sent, and the failure
\* is not propagated (the page is rendered); sent and sent_failed are never
\* both true, and both are false on GET and on an invalid POST.
SentFlagsReportDispatch ==
    SharesPublished(request) =>
        /\ response.kind = "share"
        /\ ~(response.sent /\ response.sent_failed)
        /\ ValidSharePost(request) =>
             /\ outbox # <<>>
             /\ response.sent = outbox[Len(outbox)].delivered
             /\ response.sent_failed = ~outbox[Len(outbox)].delivered
        /\ ~ValidSharePost(request) =>
             ~response.sent /\ ~response.sent_failed

\* a dispatch that failed: the page is rendered with sent_failed
SentFlagsReportDispatchWitness ==
    /\ SharesPublished(request)
    /\ ValidSharePost(request)
    /\ response.kind = "share"
    /\ ~outbox[Len(outbox)].delivered
    /\ response.sent_failed
    /\ ~response.sent

\* C9: post_detail resolves a post only when a PUBLISHED post matches the
\* slug, year, month and day of the path, and then it is that post; otherwise
\* the response is the 404 and no comment is persisted, whatever the form.
LookupByPathOrNotFound ==
    [][request'.view = "post_detail" =>
          IF \E i \in PostIds : PathMatches(request', i)
          THEN /\ response'.kind = "detail"
               /\ PathMatches(request', response'.post)
          ELSE /\ response' = [kind |-> "Http404"]
               /\ comments' = comments]_vars

\* a valid comment posted to a draft, and to the wrong day of a published post
LookupByPathOrNotFoundWitness ==
    /\ ValidCommentPost(request)
    /\ response.kind = "Http404"
    /\ comments = InitComments
    /\ \E i \in PostIds :
         /\ posts[i].slug = request.slug
         /\ DateOf(i) = <<request.year, request.month, request.day>>
         /\ posts[i].status = "DRAFT"
    /\ \E i \in PostIds :
         /\ posts[i].slug = request.slug
         /\ posts[i].status = "PUBLISHED"
         /\ DateOf(i) # <<request.year, request.month, request.day>>

\* C10: each request to post_share_by_email calls the dispatcher exactly once
\* when it is a POST with a valid form for a published post, with the form's
\* destination as the only recipient and the fixed sender, and not at all
\* otherwise; a failed dispatch is not retried.
OneDispatchPerValidShare ==
    [][request'.view = "post_share_by_email" =>
          IF ValidSharePost(request') /\ SharesPublished(request')
          THEN /\ Len(outbox') = Len(outbox) + 1
               /\ SubSeq(outbox', 1, Len(outbox)) = outbox
               /\ outbox'[Len(outbox')].recipient_list
                    = <<request'.data.destination>>
               /\ outbox'[Len(outbox')].from_email
                    = "django.framework.email.test@gmail.com"
          ELSE outbox' = outbox]_vars

\* two valid shares, the second failed: two calls, no retry
OneDispatchPerValidShareWitness ==
    /\ ValidSharePost(request)
    /\ SharesPublished(request)
    /\ response.kind = "share"
    /\ response.sent_failed
    /\ Len(outbox) = 2
    /\ outbox[2].recipient_list = <<request.data.destination>>

====
